---- MODULE Spec2Model ----
(***************************************************************************)
(* The graph-to-code compiler of the visual ML pipeline editor:            *)
(* src/src/utils/pipelineToCode.ts (validatePipelineStructure,             *)
(* topologicalSort, indexConnections, getSimpleVarName, nodeToCode,        *)
(* generateImports, generatePythonCode, generateJupyterNotebook,           *)
(* generatePythonScript) and the editor page's handlers that call it       *)
(* (validatePipeline, handleGenerateCode, handleExportJupyter,             *)
(* handleExportPython of LogicEditorPage).                                 *)
(*                                                                         *)
(* A graph is a list of nodes and a list of connections.  A JavaScript Map *)
(* is a sequence of <<key, value>> pairs in insertion order, a JavaScript  *)
(* Set a sequence without repetition in insertion order: the code iterates *)
(* both, so the order is part of the value.                                *)
(***************************************************************************)
EXTENDS Integers, Sequences, FiniteSets, TLC

VARIABLES
    graph,        \* the graph the editor holds: [nodes, connections]
    store,        \* the local key-value store
    outcome,      \* what the last call produced: an artifact or an error
    ran,          \* the components the last call ran, in order
    lastSorted,   \* what topologicalSort returned to the last call
    mem,          \* the tables built by the last run of generatePythonCode
    firstText     \* what generatePythonCode gave when first run on this graph

vars == <<graph, store, outcome, ran, lastSorted, mem, firstText>>

(***************************************************************************)
(* Bounds of the graphs the specifications draw.                           *)
(***************************************************************************)
MaxNodes == 2
SortNodes == 3
SortConns == 3
MaxConns == 1
TieNodes == 3
TieConns == 2

(***************************************************************************)
(* JavaScript Map and Set, insertion ordered.                              *)
(***************************************************************************)
EmptyMap == << >>

MapHas(m, k) == \E i \in 1..Len(m) : m[i][1] = k

MapIdx(m, k) == CHOOSE i \in 1..Len(m) : m[i][1] = k

MapGet(m, k) == m[MapIdx(m, k)][2]

MapSet(m, k, v) ==
    IF MapHas(m, k)
    THEN [m EXCEPT ![MapIdx(m, k)] = <<k, v>>]
    ELSE Append(m, <<k, v>>)

MapKeys(m) == [i \in 1..Len(m) |-> m[i][1]]

SetAdd(s, x) == IF \E i \in 1..Len(s) : s[i] = x THEN s ELSE Append(s, x)

Range(s) == {s[i] : i \in 1..Len(s)}

(***************************************************************************)
(* The node kinds.  MLKinds is the list generatePythonCode filters by; a   *)
(* node of any other kind ("comment" stands for them) is not an ML node.   *)
(***************************************************************************)
MLKinds ==
    {"dataLoader", "dataSplit", "scaler", "featureSelection", "classifier",
     "regressor", "neuralNet", "evaluate", "predict", "hyperparamTune"}

OtherKind == "comment"

Kinds == MLKinds \cup {OtherKind}

ModelKinds == {"classifier", "regressor", "neuralNet", "hyperparamTune"}

Sockets == {"data", "train", "test", "model", "prediction"}

(***************************************************************************)
(* PipelineValidationError: the message is kept as the rule that produced  *)
(* it and the node labels interpolated into it.                            *)
(***************************************************************************)
PipelineValidationError(rule, labels) ==
    [name |-> "PipelineValidationError", rule |-> rule, labels |-> labels]

NoError == [name |-> "none", rule |-> "none", labels |-> << >>]

(***************************************************************************)
(* validatePipelineStructure(nodes, connections): the error it throws, or  *)
(* NoError when it returns.                                                *)
(***************************************************************************)
Incoming(node, connections) ==
    SelectSeq(connections, LAMBDA c : c.target = node.id)

\* the socket not looked at: any incoming connection will do
HasSomeInput(incoming, socket) == Len(incoming) > 0

HasInput(incoming, socket) ==
    \E i \in 1..Len(incoming) : incoming[i].targetInput = socket

SplitHasData(incoming) == Len(incoming) # 0

NodeViolation(node, connections) ==
    LET incoming == Incoming(node, connections) IN
    IF node.kind = "dataSplit" /\ ~SplitHasData(incoming)
    THEN PipelineValidationError("splitNeedsData", <<node.label>>)
    ELSE IF node.kind \in ModelKinds /\ ~HasInput(incoming, "train")
    THEN PipelineValidationError("modelNeedsTrain", <<node.label>>)
    ELSE IF node.kind = "predict"
            /\ ~(HasInput(incoming, "model") /\ HasInput(incoming, "test"))
    THEN PipelineValidationError("predictNeedsModelAndTest", <<node.label>>)
    ELSE IF node.kind = "evaluate"
            /\ ~(HasInput(incoming, "prediction") /\ HasInput(incoming, "test"))
    THEN PipelineValidationError("evaluateNeedsPredictionAndTest", <<node.label>>)
    ELSE NoError

ConnectedNodes(connections) ==
    {connections[i].source : i \in 1..Len(connections)}
        \cup {connections[i].target : i \in 1..Len(connections)}

\* the filter without its n.kind !== 'dataLoader' conjunct
UnconnectedNodes(nodes, connections) ==
    LET connectedNodes == ConnectedNodes(connections)
        Unconnected(n) == n.id \notin connectedNodes
    IN  SelectSeq(nodes, Unconnected)

OrphanedNodes(nodes, connections) ==
    SelectSeq(nodes, LAMBDA n :
        n.kind # "dataLoader" /\ n.id \notin ConnectedNodes(connections))

\* nodes.some(n => n.kind): any node passes for a loader
HasSomeKind(nodes) == \E i \in 1..Len(nodes) : nodes[i].kind # ""

HasDataLoader(nodes) == \E i \in 1..Len(nodes) : nodes[i].kind = "dataLoader"

validatePipelineStructure(nodes, connections) ==
    LET orphanedNodes == OrphanedNodes(nodes, connections)
        bad == {i \in 1..Len(nodes) : NodeViolation(nodes[i], connections) # NoError}
    IN  IF ~HasDataLoader(nodes)
        THEN PipelineValidationError("needsDataLoader", << >>)
        ELSE IF Len(orphanedNodes) > 0
        THEN PipelineValidationError("orphanedNodes",
                 [i \in 1..Len(orphanedNodes) |-> orphanedNodes[i].label])
        ELSE IF bad # {}
        THEN NodeViolation(nodes[CHOOSE i \in bad : \A j \in bad : i <= j], connections)
        ELSE NoError

(***************************************************************************)
(* topologicalSort(nodes, connections): Kahn's algorithm over Maps keyed   *)
(* by node id.                                                             *)
(***************************************************************************)
\* new Map(): what an earlier run left in m is not seen
NewInDegree(m) == EmptyMap

RECURSIVE InitTables(_, _, _, _)
InitTables(nodes, i, adj, inDegree) ==
    IF i > Len(nodes) THEN [adj |-> adj, inDegree |-> inDegree]
    ELSE InitTables(nodes, i + 1,
                    MapSet(adj, nodes[i].id, << >>),
                    MapSet(inDegree, nodes[i].id, 0))

DegreeOr0(inDegree, id) == IF MapHas(inDegree, id) THEN MapGet(inDegree, id) ELSE 0

RECURSIVE AddEdges(_, _, _, _)
AddEdges(connections, i, adj, inDegree) ==
    IF i > Len(connections) THEN [adj |-> adj, inDegree |-> inDegree]
    ELSE LET conn == connections[i]
             adj2 == IF MapHas(adj, conn.source)
                     THEN MapSet(adj, conn.source,
                                 Append(MapGet(adj, conn.source), conn.target))
                     ELSE adj
         IN  AddEdges(connections, i + 1, adj2,
                      MapSet(inDegree, conn.target, DegreeOr0(inDegree, conn.target) + 1))

\* every id of the table queued at the start, whatever its in-degree
EveryIdQueued(inDegree) == MapKeys(inDegree)

InitialQueue(inDegree) ==
    MapKeys(SelectSeq(inDegree, LAMBDA e : e[2] = 0))

NodeMap(nodes) ==
    LET RECURSIVE Build(_, _)
        Build(i, m) == IF i > Len(nodes) THEN m
                       ELSE Build(i + 1, MapSet(m, nodes[i].id, nodes[i]))
    IN  Build(1, EmptyMap)

RECURSIVE Relax(_, _, _, _)
Relax(neighbors, i, inDegree, queue) ==
    IF i > Len(neighbors) THEN [inDegree |-> inDegree, queue |-> queue]
    ELSE LET degree == DegreeOr0(inDegree, neighbors[i]) - 1
         IN  Relax(neighbors, i + 1, MapSet(inDegree, neighbors[i], degree),
                   IF degree = 0 THEN Append(queue, neighbors[i]) ELSE queue)

\* pushed: every id pushed on the queue so far, in the order of the pushes
RECURSIVE Drain(_, _, _, _, _, _)
Drain(queue, inDegree, adj, nodeMap, sorted, pushed) ==
    IF Len(queue) = 0
    THEN [sorted |-> sorted, inDegree |-> inDegree, queue |-> queue, pushed |-> pushed]
    ELSE LET nodeId == Head(queue)
             sorted2 == IF MapHas(nodeMap, nodeId)
                        THEN Append(sorted, MapGet(nodeMap, nodeId))
                        ELSE sorted
             r == IF MapHas(adj, nodeId)
                  THEN Relax(MapGet(adj, nodeId), 1, inDegree, Tail(queue))
                  ELSE [inDegree |-> inDegree, queue |-> Tail(queue)]
         IN  Drain(r.queue, r.inDegree, adj, nodeMap, sorted2,
                   pushed \o SubSeq(r.queue, Len(queue), Len(r.queue)))

SortRun(nodes, connections, m) ==
    LET t0 == InitTables(nodes, 1, EmptyMap, NewInDegree(m))
        t1 == AddEdges(connections, 1, t0.adj, t0.inDegree)
    IN  Drain(InitialQueue(t1.inDegree), t1.inDegree, t1.adj, NodeMap(nodes), << >>,
              InitialQueue(t1.inDegree))

\* the node list returned as it was declared
DeclaredOrder(nodes, connections, m) == nodes

topologicalSort(nodes, connections, m) == SortRun(nodes, connections, m).sorted

(***************************************************************************)
(* indexConnections(connections): target id -> (targetInput -> connection).*)
(***************************************************************************)
NewConnectionIndex(m) == EmptyMap

\* an input socket already filed keeps its first connection
IndexPutOnce(index, conn) ==
    IF MapHas(index, conn.target) /\ MapHas(MapGet(index, conn.target), conn.targetInput)
    THEN index
    ELSE LET index1 == IF MapHas(index, conn.target) THEN index
                       ELSE MapSet(index, conn.target, EmptyMap)
         IN  MapSet(index1, conn.target,
                    MapSet(MapGet(index1, conn.target), conn.targetInput, conn))

IndexPut(index, conn) ==
    LET index1 == IF MapHas(index, conn.target) THEN index
                  ELSE MapSet(index, conn.target, EmptyMap)
    IN  MapSet(index1, conn.target,
               MapSet(MapGet(index1, conn.target), conn.targetInput, conn))

RECURSIVE IndexFrom(_, _, _)
IndexFrom(connections, i, index) ==
    IF i > Len(connections) THEN index
    ELSE IndexFrom(connections, i + 1, IndexPut(index, connections[i]))

indexConnections(connections, m) == IndexFrom(connections, 1, NewConnectionIndex(m))

\* connectionIndex.get(node.id)?.get(inputKey) is defined
HasConnection(connectionIndex, nodeId, inputKey) ==
    MapHas(connectionIndex, nodeId) /\ MapHas(MapGet(connectionIndex, nodeId), inputKey)

GetConnection(connectionIndex, nodeId, inputKey) ==
    MapGet(MapGet(connectionIndex, nodeId), inputKey)

(***************************************************************************)
(* getSimpleVarName(node, nodeIndex): the symbol and the updated per-kind  *)
(* counters.                                                               *)
(***************************************************************************)
kindMap ==
    <<  <<"dataLoader", "data">>, <<"dataSplit", "split">>, <<"scaler", "scaler">>,
        <<"featureSelection", "selector">>, <<"classifier", "model">>,
        <<"regressor", "model">>, <<"neuralNet", "nn">>, <<"evaluation", "metrics">>,
        <<"tuning", "tuner">>, <<"predict", "pred">>, <<"evaluate", "eval">>  >>

BaseName(kind) == IF MapHas(kindMap, kind) THEN MapGet(kindMap, kind) ELSE "step"

CounterOr0(nodeIndex, kind) == IF MapHas(nodeIndex, kind) THEN MapGet(nodeIndex, kind) ELSE 0

\* the suffix taken from the counter as it is: model, model1, model2
SuffixedByIndex(baseName, index) ==
    IF index = 0 THEN baseName ELSE baseName \o ToString(index)

Suffixed(baseName, index) ==
    IF index = 0 THEN baseName ELSE baseName \o ToString(index + 1)

getSimpleVarName(node, nodeIndex) ==
    LET index == CounterOr0(nodeIndex, node.kind)
    IN  [name |-> Suffixed(BaseName(node.kind), index),
         nodeIndex |-> MapSet(nodeIndex, node.kind, index + 1)]

NewVarNameMap(m) == EmptyMap

\* a counter table kept at module level instead of inside generatePythonCode
StaleNodeIndex(m) == m.nodeIndex

NewNodeIndex(m) == EmptyMap

\* sortedNodes.forEach(node => varNameMap.set(node.id, getSimpleVarName(node, nodeIndex)))
RECURSIVE Allocate(_, _, _, _)
Allocate(sortedNodes, i, varNameMap, nodeIndex) ==
    IF i > Len(sortedNodes) THEN [varNameMap |-> varNameMap, nodeIndex |-> nodeIndex]
    ELSE LET r == getSimpleVarName(sortedNodes[i], nodeIndex)
         IN  Allocate(sortedNodes, i + 1,
                      MapSet(varNameMap, sortedNodes[i].id, r.name), r.nodeIndex)

(***************************************************************************)
(* The local key-value store (localStorage): a function from the keys it   *)
(* holds to strings.  getItem of a key it does not hold is null.           *)
(***************************************************************************)
CsvKey(fileName) == "csv_data_" \o fileName

\* if (storedData): the item exists and is not the empty string
HasStoredData(st, fileName) ==
    CsvKey(fileName) \in DOMAIN st /\ st[CsvKey(fileName)] # ""

\* btoa(unescape(encodeURIComponent(storedData))) of the contents the model stores
Base64(content) ==
    CASE content = "a,b" -> "YSxi"
      [] content = "x" -> "eA=="
      [] OTHER -> "b64:" \o content

(***************************************************************************)
(* node.controls?.key || default: a control that is missing, or falsy, is  *)
(* replaced by the default.  The model keeps every control value as a      *)
(* string.                                                                 *)
(***************************************************************************)
NoControls == [k \in {} |-> ""]

Control(node, key, default) ==
    IF key \in DOMAIN node.controls /\ node.controls[key] # ""
    THEN node.controls[key]
    ELSE default

\* (1 - ratio).toFixed(2)
TestSize(ratio) ==
    CASE ratio = "0.8" -> "0.20"
      [] ratio = "0.7" -> "0.30"
      [] ratio = "0.9" -> "0.10"
      [] OTHER -> "0.50"

(***************************************************************************)
(* nodeToCode(node, connectionIndex, nodeMap, varName, varNameMap): the    *)
(* fragment, as its template (frag), the symbol it assigns (var), the      *)
(* symbol of the upstream node it reads (src) and the control values it    *)
(* interpolates (args).                                                    *)
(***************************************************************************)
Fragment(frag, var, src, args) == [frag |-> frag, var |-> var, src |-> src, args |-> args]

\* getSourceVarName(inputKey)
getSourceVarName(node, connectionIndex, varNameMap, inputKey) ==
    IF ~HasConnection(connectionIndex, node.id, inputKey) THEN "data"
    ELSE LET conn == GetConnection(connectionIndex, node.id, inputKey)
         IN  IF MapHas(varNameMap, conn.source) THEN MapGet(varNameMap, conn.source)
             ELSE "data"

ClassifierCode(algorithm) ==
    CASE algorithm = "RandomForest" -> "RandomForestClassifier"
      [] algorithm = "LogisticRegression" -> "LogisticRegression"
      [] algorithm = "SVM" -> "SVC"
      [] algorithm = "DecisionTree" -> "DecisionTreeClassifier"
      [] algorithm = "KNN" -> "KNeighborsClassifier"
      [] algorithm = "GradientBoosting" -> "GradientBoostingClassifier"
      [] OTHER -> "RandomForestClassifier"

RegressorCode(algorithm) ==
    CASE algorithm = "LinearRegression" -> "LinearRegression"
      [] algorithm = "Ridge" -> "Ridge"
      [] algorithm = "Lasso" -> "Lasso"
      [] algorithm = "RandomForestRegressor" -> "RandomForestRegressor"
      [] algorithm = "SVR" -> "SVR"
      [] algorithm = "GradientBoostingRegressor" -> "GradientBoostingRegressor"
      [] OTHER -> "LinearRegression"

\* the kind of the node feeding 'prediction' itself, without the step back
\* to the model behind it
IsRegressionDirect(node, connectionIndex, nodeMap) ==
    /\ HasConnection(connectionIndex, node.id, "prediction")
    /\ LET predictionConn == GetConnection(connectionIndex, node.id, "prediction")
       IN  /\ MapHas(nodeMap, predictionConn.source)
           /\ MapGet(nodeMap, predictionConn.source).kind = "regressor"

\* evaluate: the kind of the node feeding 'model' of the node feeding 'prediction'
IsRegression(node, connectionIndex, nodeMap) ==
    /\ HasConnection(connectionIndex, node.id, "prediction")
    /\ LET predictionConn == GetConnection(connectionIndex, node.id, "prediction")
       IN  /\ MapHas(nodeMap, predictionConn.source)
           /\ LET predictNode == MapGet(nodeMap, predictionConn.source)
              IN  /\ HasConnection(connectionIndex, predictNode.id, "model")
                  /\ LET predictModelConn ==
                             GetConnection(connectionIndex, predictNode.id, "model")
                     IN  /\ MapHas(nodeMap, predictModelConn.source)
                         /\ MapGet(nodeMap, predictModelConn.source).kind = "regressor"

EvaluateCode(node, connectionIndex, nodeMap) ==
    IF ~HasConnection(connectionIndex, node.id, "test")
    THEN Fragment("evaluateWarnNoTest", "", "", << >>)
    ELSE IF ~HasConnection(connectionIndex, node.id, "prediction")
    THEN Fragment("evaluateWarnNoPrediction", "", "", << >>)
    ELSE IF IsRegression(node, connectionIndex, nodeMap)
    THEN Fragment("evaluateRegression", "", "y_pred", << >>)
    ELSE Fragment("evaluateClassification", "", "y_pred", << >>)

\* predict with no look at its connections: the model is 'model' when none
\* is connected
PredictUnchecked(node, connectionIndex, varNameMap) ==
    Fragment("predict", "y_pred",
             IF HasConnection(connectionIndex, node.id, "model")
                /\ MapHas(varNameMap, GetConnection(connectionIndex, node.id, "model").source)
             THEN MapGet(varNameMap, GetConnection(connectionIndex, node.id, "model").source)
             ELSE "model", << >>)

PredictCode(node, connectionIndex, varNameMap) ==
    IF ~HasConnection(connectionIndex, node.id, "model")
    THEN Fragment("predictTodoModel", "y_pred", "", <<"None">>)
    ELSE IF ~HasConnection(connectionIndex, node.id, "test")
    THEN Fragment("predictTodoTest", "y_pred", "", <<"None">>)
    ELSE LET modelConn == GetConnection(connectionIndex, node.id, "model")
             modelVar == IF MapHas(varNameMap, modelConn.source)
                         THEN MapGet(varNameMap, modelConn.source)
                         ELSE "model"
         IN  Fragment("predict", "y_pred", modelVar, << >>)

DataLoaderCode(node, varName, st) ==
    LET fileName == Control(node, "fileName", "data.csv")
    IN  IF HasStoredData(st, fileName)
        THEN Fragment("loadEmbedded", varName, "",
                      <<fileName, Base64(st[CsvKey(fileName)])>>)
        ELSE Fragment("loadFile", varName, "", <<fileName>>)

nodeToCode(node, connectionIndex, nodeMap, varName, varNameMap, st) ==
    CASE node.kind = "dataLoader" -> DataLoaderCode(node, varName, st)
      [] node.kind = "dataSplit" ->
            Fragment("split", "",
                     getSourceVarName(node, connectionIndex, varNameMap, "data"),
                     <<Control(node, "targetColumn", "target"),
                       TestSize(Control(node, "ratio", "0.8"))>>)
      [] node.kind = "scaler" ->
            Fragment("scale", varName, "", <<Control(node, "method", "StandardScaler")>>)
      [] node.kind = "featureSelection" ->
            Fragment("select", varName, "",
                     <<Control(node, "method", "SelectKBest"), Control(node, "k", "10")>>)
      [] node.kind = "classifier" ->
            Fragment("fitClassifier", varName, "",
                     <<Control(node, "algorithm", "RandomForest"),
                       ClassifierCode(Control(node, "algorithm", "RandomForest")),
                       Control(node, "n_estimators", "100")>>)
      [] node.kind = "regressor" ->
            Fragment("fitRegressor", varName, "",
                     <<Control(node, "algorithm", "LinearRegression"),
                       RegressorCode(Control(node, "algorithm", "LinearRegression"))>>)
      [] node.kind = "neuralNet" ->
            Fragment("fitNeuralNet", varName, "",
                     <<Control(node, "layers", "64,32"), Control(node, "epochs", "50")>>)
      [] node.kind = "evaluate" -> EvaluateCode(node, connectionIndex, nodeMap)
      [] node.kind = "predict" -> PredictCode(node, connectionIndex, varNameMap)
      [] node.kind = "hyperparamTune" -> Fragment("tune", varName, "", << >>)
      [] OTHER -> Fragment("unknown", "", "", <<node.kind>>)

\* The lines of the predict and evaluate templates: what a line is, whether
\* it carries the warning sign, the variable it assigns and the value or
\* the metric it names.
Line(op, warn, var, what) == [op |-> op, warn |-> warn, var |-> var, what |-> what]

Template(frag) ==
    CASE frag \in {"predictTodoModel", "predictTodoTest"} ->
            <<Line("comment", FALSE, "", "TODO"),
              Line("assign", FALSE, "y_pred", "None"),
              Line("print", TRUE, "", "")>>
      [] frag = "predict" ->
            <<Line("comment", FALSE, "", ""),
              Line("assign", FALSE, "y_pred", "predict(X_test)"),
              Line("print", FALSE, "", "len(y_pred)"),
              Line("print", FALSE, "", "y_pred[:10]")>>
      [] frag \in {"evaluateWarnNoTest", "evaluateWarnNoPrediction"} ->
            <<Line("comment", TRUE, "", "Warning"),
              Line("print", TRUE, "", "")>>
      [] frag = "evaluateRegression" ->
            <<Line("comment", FALSE, "", ""),
              Line("import", FALSE, "", "sklearn.metrics"),
              Line("assign", FALSE, "mse", "mean_squared_error"),
              Line("assign", FALSE, "rmse", "np.sqrt"),
              Line("assign", FALSE, "mae", "mean_absolute_error"),
              Line("assign", FALSE, "r2", "r2_score"),
              Line("print", FALSE, "", "MSE"),
              Line("print", FALSE, "", "RMSE"),
              Line("print", FALSE, "", "MAE"),
              Line("print", FALSE, "", "R2")>>
      [] frag = "evaluateClassification" ->
            <<Line("comment", FALSE, "", ""),
              Line("assign", FALSE, "accuracy", "accuracy_score"),
              Line("print", FALSE, "", "Accuracy"),
              Line("print", FALSE, "", "Classification Report"),
              Line("print", FALSE, "", "classification_report"),
              Line("print", FALSE, "", "Confusion Matrix"),
              Line("print", FALSE, "", "confusion_matrix")>>
      [] OTHER -> << >>

(***************************************************************************)
(* The Python names of a fragment's template: the variables its statements *)
(* assign, the variables they read without assigning them first, the       *)
(* library names they construct or call, and the names the fragment        *)
(* imports itself.  Every fragment runs in the one namespace of the        *)
(* generated program.                                                      *)
(***************************************************************************)
Assigns(block) ==
    CASE block.frag = "loadEmbedded" -> {"csv_content", block.var}
      [] block.frag = "loadFile" -> {block.var}
      [] block.frag = "split" -> {"X", "y", "X_train", "X_test", "y_train", "y_test"}
      [] block.frag = "scale" ->
            {block.var, "X_train_scaled", "X_test_scaled", "X_train", "X_test"}
      [] block.frag = "select" ->
            {block.var, "X_train_selected", "X_test_selected", "X_train", "X_test"}
      [] block.frag \in {"fitClassifier", "fitRegressor", "fitNeuralNet"} -> {block.var}
      [] block.frag = "tune" -> {"param_grid", "grid_search", block.var}
      [] block.frag \in {"predict", "predictTodoModel", "predictTodoTest"} -> {"y_pred"}
      [] block.frag = "evaluateRegression" -> {"mse", "rmse", "mae", "r2"}
      [] block.frag = "evaluateClassification" -> {"accuracy"}
      [] OTHER -> {}

Reads(block) ==
    CASE block.frag = "split" -> {block.src}
      [] block.frag = "scale" -> {"X_train", "X_test"}
      [] block.frag = "select" -> {"X_train", "y_train", "X_test"}
      [] block.frag \in {"fitClassifier", "fitRegressor", "fitNeuralNet", "tune"} ->
            {"X_train", "y_train"}
      [] block.frag = "predict" -> {block.src, "X_test"}
      [] block.frag \in {"evaluateRegression", "evaluateClassification"} ->
            {"y_test", "y_pred"}
      [] OTHER -> {}

LocalImports(block) ==
    CASE block.frag = "loadEmbedded" -> {"io", "base64"}
      [] block.frag = "evaluateRegression" ->
            {"mean_squared_error", "r2_score", "mean_absolute_error"}
      [] OTHER -> {}

Uses(block) ==
    CASE block.frag = "loadEmbedded" -> {"io", "base64", "pd"}
      [] block.frag = "loadFile" -> {"pd"}
      [] block.frag = "split" -> {"train_test_split"}
      [] block.frag \in {"scale", "select"} -> {block.args[1]}
      [] block.frag \in {"fitClassifier", "fitRegressor"} -> {block.args[2]}
      [] block.frag = "fitNeuralNet" -> {"MLPClassifier"}
      [] block.frag = "tune" -> {"GridSearchCV", "RandomForestClassifier"}
      [] block.frag = "evaluateRegression" ->
            {"mean_squared_error", "np", "mean_absolute_error", "r2_score"}
      [] block.frag = "evaluateClassification" ->
            {"accuracy_score", "classification_report", "confusion_matrix"}
      [] OTHER -> {}

\* the names an import line of the preamble binds
ImportedNames(line) ==
    CASE line = "import pandas as pd" -> {"pd"}
      [] line = "import numpy as np" -> {"np"}
      [] line = "from sklearn.model_selection import train_test_split" -> {"train_test_split"}
      [] line = "from sklearn.preprocessing import StandardScaler, MinMaxScaler, RobustScaler, MaxAbsScaler" ->
            {"StandardScaler", "MinMaxScaler", "RobustScaler", "MaxAbsScaler"}
      [] line = "from sklearn.feature_selection import SelectKBest, f_classif" ->
            {"SelectKBest", "f_classif"}
      [] line = "from sklearn.ensemble import RandomForestClassifier, GradientBoostingClassifier" ->
            {"RandomForestClassifier", "GradientBoostingClassifier"}
      [] line = "from sklearn.linear_model import LogisticRegression" -> {"LogisticRegression"}
      [] line = "from sklearn.svm import SVC" -> {"SVC"}
      [] line = "from sklearn.tree import DecisionTreeClassifier" -> {"DecisionTreeClassifier"}
      [] line = "from sklearn.neighbors import KNeighborsClassifier" -> {"KNeighborsClassifier"}
      [] line = "from sklearn.linear_model import LinearRegression, Ridge, Lasso" ->
            {"LinearRegression", "Ridge", "Lasso"}
      [] line = "from sklearn.ensemble import RandomForestRegressor, GradientBoostingRegressor" ->
            {"RandomForestRegressor", "GradientBoostingRegressor"}
      [] line = "from sklearn.svm import SVR" -> {"SVR"}
      [] line = "from sklearn.neural_network import MLPClassifier" -> {"MLPClassifier"}
      [] line = "from sklearn.metrics import accuracy_score, classification_report, confusion_matrix" ->
            {"accuracy_score", "classification_report", "confusion_matrix"}
      [] line = "from sklearn.model_selection import GridSearchCV" -> {"GridSearchCV"}
      [] OTHER -> {}

(***************************************************************************)
(* generateImports(nodes): the import lines, a Set in insertion order.     *)
(***************************************************************************)
KindImports(kind) ==
    CASE kind = "dataSplit" -> <<"from sklearn.model_selection import train_test_split">>
      [] kind = "scaler" ->
            <<"from sklearn.preprocessing import StandardScaler, MinMaxScaler, RobustScaler, MaxAbsScaler">>
      [] kind = "featureSelection" ->
            <<"from sklearn.feature_selection import SelectKBest, f_classif">>
      [] kind = "classifier" ->
            <<"from sklearn.ensemble import RandomForestClassifier, GradientBoostingClassifier",
              "from sklearn.linear_model import LogisticRegression",
              "from sklearn.svm import SVC",
              "from sklearn.tree import DecisionTreeClassifier",
              "from sklearn.neighbors import KNeighborsClassifier">>
      [] kind = "regressor" ->
            <<"from sklearn.linear_model import LinearRegression, Ridge, Lasso",
              "from sklearn.ensemble import RandomForestRegressor, GradientBoostingRegressor",
              "from sklearn.svm import SVR">>
      [] kind = "neuralNet" -> <<"from sklearn.neural_network import MLPClassifier">>
      [] kind = "evaluate" ->
            <<"from sklearn.metrics import accuracy_score, classification_report, confusion_matrix">>
      [] kind = "hyperparamTune" -> <<"from sklearn.model_selection import GridSearchCV">>
      [] OTHER -> << >>

RECURSIVE AddAll(_, _, _)
AddAll(imports, lines, i) ==
    IF i > Len(lines) THEN imports ELSE AddAll(SetAdd(imports, lines[i]), lines, i + 1)

RECURSIVE ImportsFrom(_, _, _)
ImportsFrom(nodes, i, imports) ==
    IF i > Len(nodes) THEN imports
    ELSE ImportsFrom(nodes, i + 1, AddAll(imports, KindImports(nodes[i].kind), 1))

generateImports(nodes) ==
    ImportsFrom(nodes, 1, <<"import pandas as pd", "import numpy as np">>)

(***************************************************************************)
(* generatePythonCode(graph): one run of it, as the error it throws (or    *)
(* NoError), the text it returns, the components it called, in order, and  *)
(* the tables the run built (left as they were by a run that builds none). *)
(* The text is the import lines and the fragments, which the code joins    *)
(* between fixed banner lines.                                             *)
(***************************************************************************)
NoText == [imports |-> << >>, blocks |-> << >>]

IsMLNode(n) == n.kind \in MLKinds

MLNodes(g) == SelectSeq(g.nodes, IsMLNode)

\* varNameMap.get(node.id) || 'data'
VarNameOrData(varNameMap, id) ==
    IF MapHas(varNameMap, id) /\ MapGet(varNameMap, id) # "" THEN MapGet(varNameMap, id)
    ELSE "data"

CodeBlocks(sortedNodes, connectionIndex, nodeMap, varNameMap, st) ==
    [i \in 1..Len(sortedNodes) |->
        nodeToCode(sortedNodes[i], connectionIndex, nodeMap,
                   VarNameOrData(varNameMap, sortedNodes[i].id), varNameMap, st)]

Failed(err, ranSoFar, m) ==
    [error |-> err, text |-> NoText, sorted |-> << >>, ran |-> ranSoFar, mem |-> m]

AssembleSorted(mlNodes, connections, st, m, sortedNodes) ==
    LET run == SortRun(mlNodes, connections, m)
        nodeMap == NodeMap(mlNodes)
        connectionIndex == indexConnections(connections, m)
        alloc == Allocate(sortedNodes, 1, NewVarNameMap(m), NewNodeIndex(m))
        imports == generateImports(mlNodes)
        codeBlocks == CodeBlocks(sortedNodes, connectionIndex, nodeMap, alloc.varNameMap, st)
    IN  [error |-> NoError,
         text |-> [imports |-> imports, blocks |-> codeBlocks],
         sorted |-> sortedNodes,
         ran |-> <<"validatePipelineStructure", "topologicalSort", "indexConnections",
                   "getSimpleVarName", "generateImports", "nodeToCode">>,
         mem |-> [inDegree |-> run.inDegree, nodeIndex |-> alloc.nodeIndex,
                  varNameMap |-> alloc.varNameMap, connectionIndex |-> connectionIndex,
                  queue |-> run.queue, pushed |-> run.pushed]]

\* const sortedNodes = topologicalSort(mlNodes, graph.connections)
Assemble(mlNodes, connections, st, m) ==
    AssembleSorted(mlNodes, connections, st, m, topologicalSort(mlNodes, connections, m))

generatePythonCode(g, st, m) ==
    IF Len(g.nodes) = 0
    THEN Failed(PipelineValidationError("noNodes", << >>), << >>, m)
    ELSE IF Len(MLNodes(g)) = 0
    THEN Failed(PipelineValidationError("noMLNodes", << >>), << >>, m)
    ELSE LET err == validatePipelineStructure(MLNodes(g), g.connections)
         IN  IF err # NoError THEN Failed(err, <<"validatePipelineStructure">>, m)
             ELSE Assemble(MLNodes(g), g.connections, st, m)

(***************************************************************************)
(* validatePipeline(pipeline) of the editor page: the list of messages.    *)
(***************************************************************************)
RECURSIVE EditorAdjNodes(_, _, _)
EditorAdjNodes(nodes, i, adj) ==
    IF i > Len(nodes) THEN adj
    ELSE EditorAdjNodes(nodes, i + 1, MapSet(adj, nodes[i].id, << >>))

RECURSIVE EditorAdjEdges(_, _, _)
EditorAdjEdges(connections, i, adj) ==
    IF i > Len(connections) THEN adj
    ELSE LET conn == connections[i]
             targets == IF MapHas(adj, conn.source) THEN MapGet(adj, conn.source) ELSE << >>
         IN  EditorAdjEdges(connections, i + 1,
                            MapSet(adj, conn.source, Append(targets, conn.target)))

NeighborsOf(adj, nodeId) == IF MapHas(adj, nodeId) THEN MapGet(adj, nodeId) ELSE << >>

RECURSIVE hasCycle(_, _, _, _)
RECURSIVE VisitNeighbors(_, _, _, _, _)
\* every node visited so far counts as being on the recursion stack
hasCycleAmongVisited(adj, nodeId, visited, recStack) ==
    VisitNeighbors(adj, NeighborsOf(adj, nodeId), 1,
                   visited \cup {nodeId}, visited \cup {nodeId})

hasCycle(adj, nodeId, visited, recStack) ==
    LET r == VisitNeighbors(adj, NeighborsOf(adj, nodeId), 1,
                            visited \cup {nodeId}, recStack \cup {nodeId})
    IN  IF r.found THEN r
        ELSE [found |-> FALSE, visited |-> r.visited, recStack |-> r.recStack \ {nodeId}]

VisitNeighbors(adj, neighbors, i, visited, recStack) ==
    IF i > Len(neighbors)
    THEN [found |-> FALSE, visited |-> visited, recStack |-> recStack]
    ELSE IF neighbors[i] \notin visited
    THEN LET r == hasCycle(adj, neighbors[i], visited, recStack)
         IN  IF r.found THEN r
             ELSE VisitNeighbors(adj, neighbors, i + 1, r.visited, r.recStack)
    ELSE IF neighbors[i] \in recStack
    THEN [found |-> TRUE, visited |-> visited, recStack |-> recStack]
    ELSE VisitNeighbors(adj, neighbors, i + 1, visited, recStack)

RECURSIVE CycleFromKeys(_, _, _, _, _)
CycleFromKeys(adj, keys, i, visited, recStack) ==
    IF i > Len(keys) THEN FALSE
    ELSE IF keys[i] \in visited THEN CycleFromKeys(adj, keys, i + 1, visited, recStack)
    ELSE LET r == hasCycle(adj, keys[i], visited, recStack)
         IN  r.found \/ CycleFromKeys(adj, keys, i + 1, r.visited, r.recStack)

EditorFindsCycle(g) ==
    LET adj == EditorAdjEdges(g.connections, 1, EditorAdjNodes(g.nodes, 1, EmptyMap))
    IN  CycleFromKeys(adj, MapKeys(adj), 1, {}, {})

HasDuplicateIds(nodes) ==
    Len(nodes) # Cardinality({nodes[i].id : i \in 1..Len(nodes)})

validatePipeline(g) ==
    IF Len(g.nodes) = 0 THEN <<"noNodes">>
    ELSE (IF HasDataLoader(g.nodes) THEN << >> ELSE <<"needsDataLoader">>)
         \o (IF EditorFindsCycle(g) THEN <<"cycle">> ELSE << >>)
         \o (IF HasDuplicateIds(g.nodes) THEN <<"duplicateIds">> ELSE << >>)

(***************************************************************************)
(* generateJupyterNotebook and generatePythonScript wrap the text of       *)
(* generatePythonCode; an error of generatePythonCode passes through them. *)
(***************************************************************************)
Times == {"t1", "t2"}

DefaultPipelineName == "ML Pipeline"

NoOutcome ==
    [status |-> "none", error |-> NoError, editorErrors |-> << >>,
     artifact |-> "none", header |-> << >>, text |-> NoText, cells |-> << >>]

Thrown(err) == [NoOutcome EXCEPT !.status = "error", !.error = err]

Returned(artifact, header, text) ==
    [NoOutcome EXCEPT !.status = "ok", !.artifact = artifact, !.header = header,
                      !.text = text]

\* The lines of a fragment's template: how many there are and which of them
\* are blank.
LineCount(frag) ==
    CASE frag = "loadEmbedded" -> 16
      [] frag = "loadFile" -> 11
      [] frag = "split" -> 9
      [] frag = "scale" -> 10
      [] frag = "select" -> 9
      [] frag \in {"fitClassifier", "fitRegressor", "fitNeuralNet"} -> 5
      [] frag = "tune" -> 10
      [] frag = "unknown" -> 1
      [] OTHER -> Len(Template(frag))

BlankLines(frag) ==
    CASE frag = "loadEmbedded" -> {4, 8, 12}
      [] frag = "loadFile" -> {3, 7}
      [] frag = "scale" -> {7}
      [] frag = "select" -> {6}
      [] OTHER -> {}

\* a line that is not blank is told from the others by its fragment, the
\* variable of the fragment and its place in the template
FragmentLines(block) ==
    [k \in 1..LineCount(block.frag) |->
        IF k \in BlankLines(block.frag) THEN ""
        ELSE block.frag \o " " \o block.var \o " " \o ToString(k)]

\* codeBlocks.join('\n\n'), as lines: the empty string is one empty line
RECURSIVE JoinBlocks(_, _)
JoinBlocks(blocks, i) ==
    IF Len(blocks) = 0 THEN <<"">>
    ELSE IF i = Len(blocks) THEN FragmentLines(blocks[i])
    ELSE FragmentLines(blocks[i]) \o <<"">> \o JoinBlocks(blocks, i + 1)

Banner(title) ==
    <<"# ========================================", title,
      "# ========================================">>

\* the text generatePythonCode returns, as its lines; the text ends with a
\* newline, so its last line is empty
PythonCodeLines(text) ==
    text.imports \o <<"">> \o Banner("# ML Pipeline Auto-Generated Code") \o <<"">>
        \o JoinBlocks(text.blocks, 1) \o <<"">>
        \o Banner("# Pipeline Complete!") \o <<"">>

\* split('\n\n') on the lines of a text, from left to right: an empty line
\* with a line after it ends the section, and the next line opens another
RECURSIVE SplitSections(_, _, _, _)
SplitSections(lines, i, section, sections) ==
    IF i > Len(lines) THEN Append(sections, section)
    ELSE IF lines[i] = "" /\ i + 1 <= Len(lines)
    THEN SplitSections(lines, i + 2, <<lines[i + 1]>>, Append(sections, section))
    ELSE SplitSections(lines, i + 1, Append(section, lines[i]), sections)

\* a text cut at every blank line, with the sections that come out empty
\* left out
SectionsNotEmpty(text) ==
    SelectSeq(SplitSections(PythonCodeLines(text), 2, <<PythonCodeLines(text)[1]>>, << >>),
              LAMBDA section : section # <<"">>)

\* pythonCode.split('\n\n')
Sections(text) ==
    SplitSections(PythonCodeLines(text), 2, <<PythonCodeLines(text)[1]>>, << >>)

MarkdownCell(pipelineName, now) ==
    [cell_type |-> "markdown", source |-> <<pipelineName, now>>]

\* source: section.split('\n').map(line => line + '\n')
CodeCell(section) ==
    [cell_type |-> "code", source |-> [i \in 1..Len(section) |-> section[i] \o "\n"]]

CodeCells(sections) == [i \in 1..Len(sections) |-> CodeCell(sections[i])]

\* a notebook whose code cells carry the generation time as well
DatedJupyterNotebook(r, pipelineName, now) ==
    IF r.error # NoError THEN Thrown(r.error)
    ELSE [Returned("notebook", <<pipelineName, now>>, r.text) EXCEPT
             !.cells = <<MarkdownCell(pipelineName, now)>>
                          \o [i \in 1..Len(Sections(r.text)) |->
                                 [cell_type |-> "code",
                                  source |-> Append(CodeCell(Sections(r.text)[i]).source,
                                                    now)]]]

generateJupyterNotebook(r, pipelineName, now) ==
    IF r.error # NoError THEN Thrown(r.error)
    ELSE [Returned("notebook", <<pipelineName, now>>, r.text) EXCEPT
             !.cells = <<MarkdownCell(pipelineName, now)>>
                          \o CodeCells(Sections(r.text))]

\* a script made of the header alone when generatePythonCode failed
HeaderOnlyScript(r, pipelineName, now) ==
    Returned("script", <<pipelineName, now>>, r.text)

generatePythonScript(r, pipelineName, now) ==
    IF r.error # NoError THEN Thrown(r.error)
    ELSE Returned("script", <<pipelineName, now>>, r.text)

CodeOutcome(r) ==
    IF r.error # NoError THEN Thrown(r.error) ELSE Returned("code", << >>, r.text)

(***************************************************************************)
(* firstText remembers the first result of generatePythonCode.             *)
(***************************************************************************)
NoMem ==
    [inDegree |-> EmptyMap, nodeIndex |-> EmptyMap, varNameMap |-> EmptyMap,
     connectionIndex |-> EmptyMap, queue |-> << >>, pushed |-> << >>]

\* before: an earlier run, on another graph, had left its tables
NotRun == [seen |-> FALSE, before |-> FALSE, error |-> NoError, text |-> NoText]

Remember(r) ==
    IF firstText.seen THEN firstText
    ELSE [seen |-> TRUE, before |-> (mem # NoMem), error |-> r.error, text |-> r.text]

\* graph.nodes replaced by the scheduled order (a sort done in place)
GraphSortedInPlace(g, sortedNodes) == [g EXCEPT !.nodes = sortedNodes]

\* the graph object after a call: the compiler builds new arrays and Maps
\* (filter, map, new Map) and assigns to no field of the graph it was given
GraphAfter(g, sortedNodes) == g

LoadedKeys(sortedNodes) ==
    {CsvKey(Control(sortedNodes[i], "fileName", "data.csv")) :
        i \in {j \in 1..Len(sortedNodes) : sortedNodes[j].kind = "dataLoader"}}

\* the store with the keys of the embedded files removed after their use
StoreConsumed(st, sortedNodes) ==
    [k \in DOMAIN st \ LoadedKeys(sortedNodes) |-> st[k]]

\* the store after a call: localStorage.getItem is the only access
StoreAfter(st, sortedNodes) == st

Compiled(r) ==
    /\ ran' = r.ran
    /\ lastSorted' = r.sorted
    /\ mem' = r.mem
    /\ firstText' = Remember(r)
    /\ graph' = GraphAfter(graph, r.sorted)
    /\ store' = StoreAfter(store, r.sorted)

(***************************************************************************)
(* The graphs and stores the specifications start from.  Node ids are      *)
(* opaque, so the i-th node has an id among 1..i (an id below i repeats an *)
(* earlier node's id); 0 is the id of no node.                             *)
(***************************************************************************)
NodeLabel(i) == "N" \o ToString(i)

\* kind and controls of a node: every kind with no control set, and a
\* dataLoader whose file is not in the store
NodeVariants ==
    {[kind |-> k, controls |-> NoControls] : k \in Kinds}
        \cup {[kind |-> "dataLoader", controls |-> [fileName |-> "other.csv"]]}

MakeNode(i, id, v) ==
    [id |-> id, label |-> NodeLabel(i), kind |-> v.kind, controls |-> v.controls]

NodesOfLen(n) ==
    {[i \in 1..n |-> MakeNode(i, ids[i], vs[i])] :
        ids \in {f \in [1..n -> 1..n] : \A i \in 1..n : f[i] <= i},
        vs \in [1..n -> NodeVariants]}

Connections(n) ==
    {[source |-> s, target |-> t, sourceOutput |-> k, targetInput |-> k] :
        s \in 0..n, t \in 0..n, k \in Sockets}

ConnsOfLen(n, m) == [1..m -> Connections(n)]

Stores == {[k \in {CsvKey("data.csv")} |-> "a,b"]}

NothingRunYet ==
    /\ store \in Stores
    /\ outcome = NoOutcome
    /\ ran = << >>
    /\ lastSorted = << >>
    /\ mem = NoMem
    /\ firstText = NotRun

Init ==
    /\ \E n \in 0..MaxNodes, m \in 0..MaxConns :
           \E ns \in NodesOfLen(n), cs \in ConnsOfLen(n, m) :
               graph = [nodes |-> ns, connections |-> cs]
    /\ NothingRunYet

(***************************************************************************)
(* The graphs cut out of one branching pipeline: a loader, a split, a      *)
(* classifier and a regressor trained on the split, a predict node fed by  *)
(* either model, an evaluate node.  Any of its nodes and any of its        *)
(* connections may be left out, so a connection may name a node that is    *)
(* not there.                                                              *)
(***************************************************************************)
PipelineKinds ==
    <<"dataLoader", "dataSplit", "classifier", "regressor", "predict", "evaluate">>

PipelineNodes ==
    [i \in 1..Len(PipelineKinds) |->
        MakeNode(i, i, [kind |-> PipelineKinds[i], controls |-> NoControls])]

Wire(s, out, t, in) ==
    [source |-> s, target |-> t, sourceOutput |-> out, targetInput |-> in]

PipelineConnections ==
    <<Wire(1, "data", 2, "data"), Wire(2, "train", 3, "train"),
      Wire(2, "train", 4, "train"), Wire(3, "model", 5, "model"),
      Wire(4, "model", 5, "model"), Wire(2, "test", 5, "test"),
      Wire(5, "prediction", 6, "prediction"), Wire(2, "test", 6, "test")>>

\* the elements of s at the positions in keep, in the order of s
RECURSIVE Pick(_, _, _)
Pick(s, keep, i) ==
    IF i > Len(s) THEN << >>
    ELSE (IF i \in keep THEN <<s[i]>> ELSE << >>) \o Pick(s, keep, i + 1)

InitPipeline ==
    /\ \E keepNodes \in SUBSET (1..Len(PipelineNodes)),
          keepConns \in SUBSET (1..Len(PipelineConnections)) :
           graph = [nodes |-> Pick(PipelineNodes, keepNodes, 1),
                    connections |-> Pick(PipelineConnections, keepConns, 1)]
    /\ NothingRunYet

(***************************************************************************)
(* The graphs of TieNodes nodes with distinct ids, each a loader, a split  *)
(* or a scaler, joined by up to TieConns connections between nodes of the  *)
(* graph: several nodes may be ready for scheduling at once, and several   *)
(* nodes may be of one kind.                                               *)
(***************************************************************************)
TieKinds == {"dataLoader", "dataSplit", "scaler"}

TieNodeLists ==
    {[i \in 1..TieNodes |-> MakeNode(i, i, [kind |-> ks[i], controls |-> NoControls])] :
        ks \in [1..TieNodes -> TieKinds]}

TieConnections ==
    {Wire(s, k, t, k) : s \in 1..TieNodes, t \in 1..TieNodes, k \in {"data", "train"}}

InitTies ==
    /\ \E m \in 0..TieConns :
           \E ns \in TieNodeLists, cs \in [1..m -> TieConnections] :
               graph = [nodes |-> ns, connections |-> cs]
    /\ NothingRunYet

(***************************************************************************)
(* The linear chain loader -> split -> classifier -> predict -> evaluate,  *)
(* with the test data of the split wired to predict and to evaluate, its   *)
(* nodes and its connections declared in every order.                      *)
(***************************************************************************)
ChainNodes == Pick(PipelineNodes, {1, 2, 3, 5, 6}, 1)

ChainConnections == Pick(PipelineConnections, {1, 2, 4, 6, 7, 8}, 1)

Orders(n) == {f \in [1..n -> 1..n] : \A i, j \in 1..n : f[i] = f[j] => i = j}

Reordered(s, order) == [i \in 1..Len(s) |-> s[order[i]]]

NodeOrders == Orders(Len(ChainNodes))

ConnectionOrders == Orders(Len(ChainConnections))

InitChain ==
    /\ \E nodeOrder \in NodeOrders, connOrder \in ConnectionOrders :
           graph = [nodes |-> Reordered(ChainNodes, nodeOrder),
                    connections |-> Reordered(ChainConnections, connOrder)]
    /\ NothingRunYet

(***************************************************************************)
(* generatePythonCode called on the graph the editor holds, with no check   *)
(* before it (the preview of the editor page that calls it directly).      *)
(***************************************************************************)
GeneratePythonCode ==
    LET r == generatePythonCode(graph, store, mem)
    IN  /\ outcome' = CodeOutcome(r)
        /\ Compiled(r)

(***************************************************************************)
(* The handlers of the editor page.                                        *)
(***************************************************************************)
HandleGenerateCode ==
    LET validationErrors == validatePipeline(graph)
        r == generatePythonCode(graph, store, mem)
    IN  /\ IF Len(validationErrors) > 0
           THEN /\ outcome' = [NoOutcome EXCEPT !.status = "error",
                                               !.editorErrors = validationErrors]
                /\ ran' = <<"validatePipeline">>
                /\ lastSorted' = << >>
                /\ UNCHANGED <<graph, store, mem, firstText>>
           ELSE /\ outcome' = CodeOutcome(r)
                /\ Compiled([r EXCEPT !.ran = <<"validatePipeline">> \o r.ran])

HandleExportJupyter ==
    LET r == generatePythonCode(graph, store, mem)
    IN  \E now \in Times :
            /\ outcome' = generateJupyterNotebook(r, DefaultPipelineName, now)
            /\ Compiled(r)

HandleExportPython ==
    LET r == generatePythonCode(graph, store, mem)
    IN  \E now \in Times :
            /\ outcome' = generatePythonScript(r, DefaultPipelineName, now)
            /\ Compiled(r)

(***************************************************************************)
(* handleDropOn: a node of a palette kind is dropped on the canvas and     *)
(* added to the editor, under an id no node has yet; what the last call    *)
(* left stays.  The next call compiles another graph.                      *)
(***************************************************************************)
HandleDropOn ==
    /\ Len(graph.nodes) < MaxNodes
    /\ \E kind \in MLKinds :
           LET i == Len(graph.nodes) + 1
               node == MakeNode(i, i, [kind |-> kind, controls |-> NoControls])
           IN  graph' = [graph EXCEPT !.nodes = Append(graph.nodes, node)]
    /\ firstText' = NotRun
    /\ UNCHANGED <<store, outcome, ran, lastSorted, mem>>

(***************************************************************************)
(* nodeToCode called on one node of the graph, with the index of the       *)
(* graph's connections and the names of the nodes in node-list order, and  *)
(* no validation before it.                                                *)
(***************************************************************************)
NodeToCode ==
    \E i \in 1..Len(graph.nodes) :
        LET node == graph.nodes[i]
            connectionIndex == indexConnections(graph.connections, mem)
            varNameMap == Allocate(graph.nodes, 1, NewVarNameMap(mem),
                                   NewNodeIndex(mem)).varNameMap
            code == nodeToCode(node, connectionIndex, NodeMap(graph.nodes),
                               VarNameOrData(varNameMap, node.id), varNameMap, store)
        IN  /\ outcome' = Returned("fragment", << >>,
                                   [imports |-> << >>, blocks |-> <<code>>])
            /\ ran' = <<"nodeToCode">>
            /\ lastSorted' = <<node>>
            /\ UNCHANGED <<graph, store, mem, firstText>>

(***************************************************************************)
(* The graphs over one pipeline with two prediction branches: a loader, a  *)
(* split, a scaler, a classifier trained on the split or on the scaler,    *)
(* two predict nodes on the classifier and an evaluate node behind each.   *)
(* All nodes are there; any of the connections may be left out.            *)
(***************************************************************************)
BranchKinds ==
    <<"dataLoader", "dataSplit", "scaler", "classifier",
      "predict", "predict", "evaluate", "evaluate">>

BranchNodes ==
    [i \in 1..Len(BranchKinds) |->
        MakeNode(i, i, [kind |-> BranchKinds[i], controls |-> NoControls])]

BranchConnections ==
    <<Wire(1, "data", 2, "data"), Wire(2, "train", 3, "train"),
      Wire(3, "train", 4, "train"), Wire(2, "train", 4, "train"),
      Wire(4, "model", 5, "model"), Wire(4, "model", 6, "model"),
      Wire(2, "test", 5, "test"), Wire(2, "test", 6, "test"),
      Wire(5, "prediction", 7, "prediction"), Wire(6, "prediction", 8, "prediction"),
      Wire(2, "test", 7, "test"), Wire(2, "test", 8, "test")>>

InitBranches ==
    /\ \E keepConns \in SUBSET (1..Len(BranchConnections)) :
           graph = [nodes |-> BranchNodes,
                    connections |-> Pick(BranchConnections, keepConns, 1)]
    /\ NothingRunYet

(***************************************************************************)
(* topologicalSort called on a node list and a connection list as they     *)
(* come: ids may repeat, a connection may run from a node to itself, occur *)
(* twice, close a cycle, or name an id (0) that no node has.               *)
(***************************************************************************)
SortNodeLists ==
    {[i \in 1..SortNodes |->
         MakeNode(i, ids[i], [kind |-> "scaler", controls |-> NoControls])] :
        ids \in {f \in [1..SortNodes -> 1..SortNodes] : \A i \in 1..SortNodes : f[i] <= i}}

SortConnections == {Wire(s, "train", t, "train") : s \in 0..SortNodes, t \in 0..SortNodes}

InitSort ==
    /\ \E m \in 0..SortConns :
           \E ns \in SortNodeLists, cs \in [1..m -> SortConnections] :
               graph = [nodes |-> ns, connections |-> cs]
    /\ NothingRunYet

TopologicalSort ==
    LET run == SortRun(graph.nodes, graph.connections, mem)
    IN  /\ outcome' = Returned("schedule", << >>, NoText)
        /\ ran' = <<"topologicalSort">>
        /\ lastSorted' = topologicalSort(graph.nodes, graph.connections, mem)
        /\ mem' = [mem EXCEPT !.inDegree = run.inDegree, !.queue = run.queue,
                              !.pushed = run.pushed]
        /\ UNCHANGED <<graph, store, firstText>>

(***************************************************************************)
(* validatePipeline called on the pipeline the editor exported, alone.     *)
(***************************************************************************)
ValidatePipeline ==
    LET validationErrors == validatePipeline(graph)
    IN  /\ outcome' = [NoOutcome EXCEPT
                          !.status = IF Len(validationErrors) > 0 THEN "error" ELSE "ok",
                          !.editorErrors = validationErrors]
        /\ ran' = <<"validatePipeline">>
        /\ lastSorted' = << >>
        /\ UNCHANGED <<graph, store, mem, firstText>>

Next ==
    \/ GeneratePythonCode
    \/ HandleGenerateCode
    \/ HandleExportJupyter
    \/ HandleExportPython

Spec == Init /\ [][Next]_vars

SpecPipeline == InitPipeline /\ [][Next]_vars

NextEdit == Next \/ HandleDropOn

SpecEdit == Init /\ [][NextEdit]_vars

SpecTies == InitTies /\ [][Next]_vars

SpecEmitter == InitPipeline /\ [][NodeToCode]_vars

\* generatePythonCode called on the graph as declared, once
CompileOnce == ran = << >> /\ GeneratePythonCode

SpecChain == InitChain /\ [][CompileOnce]_vars

SpecBranches == InitBranches /\ [][GeneratePythonCode]_vars

SpecSort == InitSort /\ [][TopologicalSort]_vars

SpecValidate == InitSort /\ [][ValidatePipeline]_vars

(***************************************************************************)
(* What the properties speak of.                                           *)
(***************************************************************************)
\* the last call ran generatePythonCode on the graph the editor holds now
GeneratePythonCodeRan ==
    firstText.seen /\ outcome.status # "none" /\ outcome.editorErrors = << >>

SchedulerRan == "topologicalSort" \in Range(ran)

MLIds == {MLNodes(graph)[i].id : i \in 1..Len(MLNodes(graph))}

\* the ids reached from the ids in S along k connections between ML nodes
RECURSIVE ReachedIn(_, _)
ReachedIn(S, k) ==
    IF k = 0 THEN S
    ELSE ReachedIn({graph.connections[i].target : i \in
                       {j \in 1..Len(graph.connections) :
                           /\ graph.connections[j].source \in S
                           /\ graph.connections[j].target \in MLIds}}, k - 1)

\* some ML node reaches itself along one or more connections
HasDirectedCycle ==
    \E x \in MLIds : \E k \in 1..Cardinality(MLIds) : x \in ReachedIn({x}, k)

HasIncomingOn(node, socket) ==
    \E i \in 1..Len(graph.connections) :
        /\ graph.connections[i].target = node.id
        /\ graph.connections[i].targetInput = socket

IsOrphan(node) ==
    /\ node.kind # "dataLoader"
    /\ \A i \in 1..Len(graph.connections) :
           graph.connections[i].source # node.id /\ graph.connections[i].target # node.id

(***************************************************************************)
(* C1.  For every graph accepted by validation, the sequence returned by   *)
(* topologicalSort to generatePythonCode contains every ML node of the     *)
(* graph exactly once, and the source node of every connection stands      *)
(* before its target node.  (Stated for the graphs whose node ids are      *)
(* distinct and whose connections join ML nodes of the graph, so that a    *)
(* violation rests on nothing but the graph's shape.)                      *)
(***************************************************************************)
WellFormedGraph ==
    /\ ~HasDuplicateIds(graph.nodes)
    /\ \A c \in 1..Len(graph.connections) :
           graph.connections[c].source \in MLIds /\ graph.connections[c].target \in MLIds

C1_ScheduleIsTotalOrder ==
    (GeneratePythonCodeRan /\ SchedulerRan /\ WellFormedGraph) =>
        LET ml == MLNodes(graph) IN
        /\ Len(lastSorted) = Len(ml)
        /\ \A i \in 1..Len(ml) :
               Cardinality({j \in 1..Len(lastSorted) : lastSorted[j] = ml[i]}) = 1
        /\ \A c \in 1..Len(graph.connections) : \A i, j \in 1..Len(lastSorted) :
               (/\ lastSorted[i].id = graph.connections[c].source
                /\ lastSorted[j].id = graph.connections[c].target) => i < j

(***************************************************************************)
(* C2.  A graph whose connections hold a directed cycle (a self-loop is    *)
(* one) is stopped by validation on every entry point: the call ends with  *)
(* a validation error and topologicalSort is never run on the graph.       *)
(* (Which rule's message is reported is left open here: a rule checked     *)
(* before the cycle rule may report first.)                                *)
(***************************************************************************)
C2_CycleStopsCompilation ==
    (HasDirectedCycle /\ WellFormedGraph /\ outcome.status # "none") =>
        (outcome.status = "error" /\ ~SchedulerRan)

(***************************************************************************)
(* C3.  For a graph with at least one ML node and no dataLoader node,      *)
(* generatePythonCode fails with the missing-DataLoader error, only the    *)
(* validator has run, and no text is returned.                             *)
(***************************************************************************)
NoLoaderGraph ==
    /\ Len(MLNodes(graph)) > 0
    /\ \A i \in 1..Len(MLNodes(graph)) : MLNodes(graph)[i].kind # "dataLoader"

C3_MissingDataLoaderFailsFast ==
    (NoLoaderGraph /\ GeneratePythonCodeRan) =>
        /\ outcome.status = "error"
        /\ outcome.error = PipelineValidationError("needsDataLoader", << >>)
        /\ Range(ran) \subseteq {"validatePipeline", "validatePipelineStructure"}
        /\ lastSorted = << >>
        /\ outcome.text = NoText
        /\ outcome.artifact = "none"

C3_Witness ==
    /\ NoLoaderGraph
    /\ GeneratePythonCodeRan
    /\ WellFormedGraph
    /\ Len(MLNodes(graph)) > 1
    /\ Len(graph.connections) > 0

(***************************************************************************)
(* C4.  After the allocation step of generatePythonCode no two distinct    *)
(* node ids are mapped to the same symbol; a classifier and a regressor    *)
(* of one graph get two different model symbols.                           *)
(***************************************************************************)
C4_SymbolsUnique ==
    (GeneratePythonCodeRan /\ WellFormedGraph /\ outcome.status = "ok") =>
        \A i, j \in 1..Len(mem.varNameMap) :
            mem.varNameMap[i][2] = mem.varNameMap[j][2] => i = j

(***************************************************************************)
(* C5.  generatePythonCode returns text only if every dataSplit node has   *)
(* an incoming connection on 'data', every classifier, regressor,          *)
(* neuralNet and hyperparamTune node one on 'train', every predict node    *)
(* on 'model' and on 'test', every evaluate node on 'prediction' and on    *)
(* 'test'.                                                                 *)
(***************************************************************************)
RequiredSockets(kind) ==
    CASE kind = "dataSplit" -> {"data"}
      [] kind \in ModelKinds -> {"train"}
      [] kind = "predict" -> {"model", "test"}
      [] kind = "evaluate" -> {"prediction", "test"}
      [] OTHER -> {}

C5_TextOnlyIfRequiredSockets ==
    (GeneratePythonCodeRan /\ WellFormedGraph /\ outcome.status = "ok") =>
        \A i \in 1..Len(MLNodes(graph)) :
            \A socket \in RequiredSockets(MLNodes(graph)[i].kind) :
                HasIncomingOn(MLNodes(graph)[i], socket)

(***************************************************************************)
(* C6.  When the graph handed to generatePythonCode holds a node whose     *)
(* kind is not one of the ten registry kinds, the compilation fails: the   *)
(* node is never left out of an output that is otherwise returned.         *)
(* (Stated for graphs whose node ids are distinct and whose connections    *)
(* join ML nodes of the graph.)                                            *)
(***************************************************************************)
HasUnknownKind == \E i \in 1..Len(graph.nodes) : graph.nodes[i].kind \notin MLKinds

C6_UnknownKindFailsCompilation ==
    (HasUnknownKind /\ WellFormedGraph /\ GeneratePythonCodeRan) =>
        (outcome.status = "error" /\ outcome.text = NoText)

(***************************************************************************)
(* C7.  When a connection of the graph has a source id or a target id that *)
(* is the id of no node of the compiled node set, validation fails and     *)
(* generatePythonCode returns no text.  (Stated for graphs whose node ids  *)
(* are distinct.)                                                          *)
(***************************************************************************)
HasDanglingConnection ==
    \E c \in 1..Len(graph.connections) :
        graph.connections[c].source \notin MLIds \/ graph.connections[c].target \notin MLIds

C7_DanglingConnectionFails ==
    (HasDanglingConnection /\ ~HasDuplicateIds(graph.nodes) /\ GeneratePythonCodeRan) =>
        (outcome.status = "error" /\ outcome.text = NoText)

(***************************************************************************)
(* C8.  A graph in which two nodes share an id is rejected on every path   *)
(* that produces an artifact (code preview, notebook export, script        *)
(* export): the call ends with an error and no text.  (Stated for graphs   *)
(* whose connections join nodes of the graph.)                             *)
(***************************************************************************)
C8_DuplicateIdsRejected ==
    (HasDuplicateIds(graph.nodes) /\ ~HasDanglingConnection /\ firstText.seen
        /\ outcome.status # "none") =>
        (outcome.status = "error" /\ outcome.text = NoText)

(***************************************************************************)
(* C9.  For a graph with an ML node, not a dataLoader, that is neither the *)
(* source nor the target of any connection, generatePythonCode fails with  *)
(* a validation error that names the node, and returns no text.            *)
(***************************************************************************)
Orphans == SelectSeq(MLNodes(graph), IsOrphan)

OrphanLabels == [i \in 1..Len(Orphans) |-> Orphans[i].label]

C9_OrphanErrorNamesNode ==
    (Len(Orphans) > 0 /\ GeneratePythonCodeRan) =>
        /\ outcome.status = "error"
        /\ outcome.text = NoText
        /\ \A i \in 1..Len(Orphans) : Orphans[i].label \in Range(outcome.error.labels)

\* C9 as amended: the call fails with a validation error and no text; the
\* error is the disconnected-nodes error, with the labels of all such nodes
\* in node order, when the graph has a dataLoader node, and the
\* missing-DataLoader error when it has none
C9_OrphanStopsCompilation ==
    (Len(Orphans) > 0 /\ GeneratePythonCodeRan) =>
        /\ outcome.status = "error"
        /\ outcome.text = NoText
        /\ outcome.artifact = "none"
        /\ lastSorted = << >>
        /\ outcome.error =
               IF \E i \in 1..Len(MLNodes(graph)) : MLNodes(graph)[i].kind = "dataLoader"
               THEN PipelineValidationError("orphanedNodes", OrphanLabels)
               ELSE PipelineValidationError("needsDataLoader", << >>)

C9_Witness ==
    /\ GeneratePythonCodeRan
    /\ Len(Orphans) > 0
    /\ outcome.error.rule = "orphanedNodes"
    /\ WellFormedGraph

Headers == {<<DefaultPipelineName, now>> : now \in Times}

C11_TimeOnlyInHeader ==
    (GeneratePythonCodeRan /\ outcome.status = "ok") =>
        /\ outcome.text = firstText.text
        /\ outcome.artifact = "script" =>
               outcome.header \in Headers /\ outcome.cells = << >>
        /\ outcome.artifact = "notebook" =>
               /\ outcome.header \in Headers
               /\ outcome.cells[1] =
                      [cell_type |-> "markdown", source |-> outcome.header]
               /\ Tail(outcome.cells) = CodeCells(Sections(firstText.text))

\* a notebook of two fragments, exported at the later time
C11_Witness ==
    /\ GeneratePythonCodeRan
    /\ outcome.artifact = "notebook"
    /\ outcome.header = <<DefaultPipelineName, "t2">>
    /\ Len(outcome.text.blocks) = 2
    /\ Len(outcome.cells) > 6

SchedulerCameShort == SchedulerRan /\ Len(lastSorted) < Len(MLNodes(graph))

C14_ShortScheduleIsFatal ==
    (GeneratePythonCodeRan /\ WellFormedGraph /\ SchedulerCameShort) =>
        (outcome.status = "error" /\ outcome.text = NoText)

(***************************************************************************)
(* C15.  When several nodes not yet emitted have in-degree zero at the     *)
(* same time, topologicalSort emits them in the order of the node list,    *)
(* whatever the order of the connection list: a node emitted while another *)
(* node was ready as well stands before that node in the node list.        *)
(* (Stated for graphs with distinct ids, connections between nodes of the  *)
(* graph and no directed cycle.)                                           *)
(***************************************************************************)
DeclaredAt(node) == CHOOSE i \in 1..Len(MLNodes(graph)) : MLNodes(graph)[i].id = node.id

\* every node feeding lastSorted[j] stands before position i
ReadyAt(j, i) ==
    \A c \in 1..Len(graph.connections) :
        graph.connections[c].target = lastSorted[j].id =>
            \E k \in 1..(i - 1) : lastSorted[k].id = graph.connections[c].source

C15_TiesInDeclaredOrder ==
    (GeneratePythonCodeRan /\ SchedulerRan /\ WellFormedGraph /\ ~HasDirectedCycle) =>
        \A i, j \in 1..Len(lastSorted) :
            (i < j /\ ReadyAt(j, i)) => DeclaredAt(lastSorted[i]) < DeclaredAt(lastSorted[j])

(***************************************************************************)
(* C16.  For every kind, the first node of the kind in the scheduled order *)
(* gets the kind's base name with no suffix and the k-th node of the kind, *)
(* k >= 2, the base name followed by k.                                    *)
(***************************************************************************)
\* how many of the first i scheduled nodes have the kind of the i-th
OccurrenceAt(i) ==
    Cardinality({j \in 1..i : lastSorted[j].kind = lastSorted[i].kind})

C16_KthOfKindNumberedK ==
    (GeneratePythonCodeRan /\ outcome.status = "ok") =>
        \A i \in 1..Len(lastSorted) :
            /\ MapHas(mem.varNameMap, lastSorted[i].id)
            /\ MapGet(mem.varNameMap, lastSorted[i].id) =
                   IF OccurrenceAt(i) = 1 THEN BaseName(lastSorted[i].kind)
                   ELSE BaseName(lastSorted[i].kind) \o ToString(OccurrenceAt(i))

\* three nodes of one kind, all named
C16_Witness ==
    /\ GeneratePythonCodeRan
    /\ outcome.status = "ok"
    /\ \E i \in 1..Len(lastSorted) : OccurrenceAt(i) = 3

(***************************************************************************)
(* C17.  For every graph accepted by validation, no predict fragment and   *)
(* no evaluate fragment of the text generatePythonCode returns is a        *)
(* warning stub: a predict node without its 'model' or 'test' connection   *)
(* and an evaluate node without its 'prediction' or 'test' connection are  *)
(* stopped by validation.                                                  *)
(***************************************************************************)
WarningStubs ==
    {"predictTodoModel", "predictTodoTest", "evaluateWarnNoTest", "evaluateWarnNoPrediction"}

FragmentsOf(text) == {text.blocks[i].frag : i \in 1..Len(text.blocks)}

C17_NoStubAfterValidation ==
    GeneratePythonCodeRan =>
        /\ FragmentsOf(outcome.text) \cap WarningStubs = {}
        /\ \A i \in 1..Len(MLNodes(graph)) :
               (/\ MLNodes(graph)[i].kind \in {"predict", "evaluate"}
                /\ \E socket \in RequiredSockets(MLNodes(graph)[i].kind) :
                       ~HasIncomingOn(MLNodes(graph)[i], socket))
                   => outcome.status = "error"

\* a text with a predict fragment and an evaluate fragment
C17_Witness ==
    /\ GeneratePythonCodeRan
    /\ outcome.status = "ok"
    /\ "predict" \in FragmentsOf(outcome.text)
    /\ FragmentsOf(outcome.text) \cap {"evaluateClassification", "evaluateRegression"} # {}

(***************************************************************************)
(* C18.  Called on a predict node with no connection on 'model' or on      *)
(* 'test', or on an evaluate node with none on 'prediction' or on 'test',  *)
(* nodeToCode does not fail: it returns a fragment with a warning sign,    *)
(* and the predict fragment sets y_pred to None.                           *)
(***************************************************************************)
EmitterRan == outcome.artifact = "fragment" /\ Len(lastSorted) = 1

LacksRequiredInput(node) ==
    /\ node.kind \in {"predict", "evaluate"}
    /\ \E socket \in RequiredSockets(node.kind) : ~HasIncomingOn(node, socket)

Warns(block) == \E l \in 1..Len(Template(block.frag)) : Template(block.frag)[l].warn

SetsNone(block, var) ==
    \E l \in 1..Len(Template(block.frag)) :
        Template(block.frag)[l] = Line("assign", FALSE, var, "None")

C18_EmitterWarnsOnMissingInput ==
    (EmitterRan /\ LacksRequiredInput(lastSorted[1])) =>
        /\ outcome.status = "ok"
        /\ Len(outcome.text.blocks) = 1
        /\ Warns(outcome.text.blocks[1])
        /\ lastSorted[1].kind = "predict" => SetsNone(outcome.text.blocks[1], "y_pred")

\* a predict node fed a model and no test data, given to the emitter
C18_Witness ==
    /\ EmitterRan
    /\ lastSorted[1].kind = "predict"
    /\ HasIncomingOn(lastSorted[1], "model")
    /\ ~HasIncomingOn(lastSorted[1], "test")

(***************************************************************************)
(* C19.  For an evaluate node with both inputs connected, the metric block *)
(* is the regression set (MSE, RMSE, MAE, R2) exactly when the node        *)
(* feeding 'model' of the node feeding the evaluate node's 'prediction'    *)
(* has kind regressor, and the classification set (accuracy,               *)
(* classification report, confusion matrix) in every other case.  (Stated  *)
(* for graphs in which one connection at most feeds an input socket, so    *)
(* that the node feeding a socket is one node.)                            *)
(***************************************************************************)
FeedsOf(id, socket) ==
    {c \in 1..Len(graph.connections) :
        graph.connections[c].target = id /\ graph.connections[c].targetInput = socket}

SingleFeeds ==
    \A i \in 1..Len(graph.nodes) : \A socket \in Sockets :
        Cardinality(FeedsOf(graph.nodes[i].id, socket)) <= 1

\* the kinds of the ML nodes feeding the socket of the node with this id
FeederKinds(id, socket) ==
    {MLNodes(graph)[i].kind : i \in {j \in 1..Len(MLNodes(graph)) :
        \E c \in FeedsOf(id, socket) : graph.connections[c].source = MLNodes(graph)[j].id}}

FeederIds(id, socket) == {graph.connections[c].source : c \in FeedsOf(id, socket)}

ModelBehind(evaluateNode) ==
    UNION {FeederKinds(p, "model") : p \in FeederIds(evaluateNode.id, "prediction") \cap MLIds}

Metrics(block) ==
    {Template(block.frag)[l].what :
        l \in {k \in 1..Len(Template(block.frag)) : Template(block.frag)[k].op = "print"}}

C19_MetricSetFollowsModelKind ==
    (GeneratePythonCodeRan /\ outcome.status = "ok" /\ SingleFeeds) =>
        \A i \in 1..Len(lastSorted) :
            lastSorted[i].kind = "evaluate" =>
                Metrics(outcome.text.blocks[i]) =
                    IF ModelBehind(lastSorted[i]) = {"regressor"}
                    THEN {"MSE", "RMSE", "MAE", "R2"}
                    ELSE {"Accuracy", "Classification Report", "classification_report",
                          "Confusion Matrix", "confusion_matrix"}

\* an evaluate node behind a predict node behind a regressor, evaluated
C19_Witness ==
    /\ GeneratePythonCodeRan
    /\ outcome.status = "ok"
    /\ WellFormedGraph
    /\ SingleFeeds
    /\ \E i \in 1..Len(lastSorted) :
           /\ lastSorted[i].kind = "evaluate"
           /\ ModelBehind(lastSorted[i]) = {"regressor"}
           /\ outcome.text.blocks[i].frag = "evaluateRegression"

(***************************************************************************)
(* C20.  For the linear chain dataLoader -> dataSplit -> classifier ->     *)
(* predict -> evaluate, with the test-data connections validation asks     *)
(* for, generatePythonCode emits the fragments in the order load, split,   *)
(* model fit, predict, classification metrics, in whatever order the five  *)
(* nodes and the connections are declared.                                 *)
(***************************************************************************)
IsChain ==
    /\ Len(graph.nodes) = Len(ChainNodes)
    /\ Range(graph.nodes) = Range(ChainNodes)
    /\ Len(graph.connections) = Len(ChainConnections)
    /\ Range(graph.connections) = Range(ChainConnections)

FragmentOrder(text) == [i \in 1..Len(text.blocks) |-> text.blocks[i].frag]

C20_ChainFragmentsInOrder ==
    (IsChain /\ GeneratePythonCodeRan) =>
        /\ outcome.status = "ok"
        /\ FragmentOrder(outcome.text) =
               <<"loadEmbedded", "split", "fitClassifier", "predict", "evaluateClassification">>
        /\ Metrics(outcome.text.blocks[5]) =
               {"Accuracy", "Classification Report", "classification_report",
                "Confusion Matrix", "confusion_matrix"}

\* the chain declared from its last node to its first, compiled
C20_Witness ==
    /\ IsChain
    /\ GeneratePythonCodeRan
    /\ outcome.status = "ok"
    /\ \A i \in 1..Len(graph.nodes) : graph.nodes[i] = ChainNodes[Len(ChainNodes) + 1 - i]
    /\ graph.connections[1] = ChainConnections[Len(ChainConnections)]

(***************************************************************************)
(* C21.  generatePythonCode fails with a validation error and returns no   *)
(* text when the node list is empty and when it holds no node of an ML     *)
(* kind; generateJupyterNotebook and generatePythonScript fail in exactly  *)
(* the cases in which generatePythonCode fails, and then produce no        *)
(* artifact.                                                               *)
(***************************************************************************)
C21_NoNodesNoArtifact ==
    GeneratePythonCodeRan =>
        /\ Len(graph.nodes) = 0 =>
               outcome.error = PipelineValidationError("noNodes", << >>)
        /\ (Len(graph.nodes) > 0 /\ ~HasUnknownKind) => outcome.error.rule # "noMLNodes"
        /\ (Len(graph.nodes) > 0 /\ \A i \in 1..Len(graph.nodes) :
                                        graph.nodes[i].kind \notin MLKinds) =>
               outcome.error = PipelineValidationError("noMLNodes", << >>)
        /\ outcome.status = "error" <=> firstText.error # NoError
        /\ outcome.status = "error" <=> outcome.error # NoError
        /\ outcome.status = "error" =>
               /\ outcome.artifact = "none"
               /\ outcome.text = NoText
               /\ outcome.header = << >>
               /\ outcome.cells = << >>

\* a graph of decorative nodes only, refused
C21_Witness ==
    /\ GeneratePythonCodeRan
    /\ Len(graph.nodes) = MaxNodes
    /\ outcome.error.rule = "noMLNodes"
    /\ outcome.artifact = "none"

(***************************************************************************)
(* C22.  When several connections have the same target node and the same   *)
(* target input socket, indexConnections keeps for the pair the connection *)
(* that comes last in the connection list; the earlier ones leave the      *)
(* index with no error, and validation has no rule against such a graph.   *)
(***************************************************************************)
\* the position of the last connection into the same socket as connection c
LastInto(c) ==
    CHOOSE j \in FeedsOf(graph.connections[c].target, graph.connections[c].targetInput) :
        \A k \in FeedsOf(graph.connections[c].target, graph.connections[c].targetInput) :
            k <= j

ValidationRules ==
    {"noNodes", "noMLNodes", "needsDataLoader", "orphanedNodes", "splitNeedsData",
     "modelNeedsTrain", "predictNeedsModelAndTest", "evaluateNeedsPredictionAndTest"}

DoublyFed ==
    \E c, d \in 1..Len(graph.connections) :
        /\ c < d
        /\ graph.connections[c].target = graph.connections[d].target
        /\ graph.connections[c].targetInput = graph.connections[d].targetInput
        /\ graph.connections[c].source # graph.connections[d].source

C22_LastConnectionWins ==
    GeneratePythonCodeRan =>
        /\ outcome.status = "error" => outcome.error.rule \in ValidationRules
        /\ outcome.status = "ok" =>
               \A c \in 1..Len(graph.connections) :
                   LET conn == graph.connections[c] IN
                   /\ HasConnection(mem.connectionIndex, conn.target, conn.targetInput)
                   /\ GetConnection(mem.connectionIndex, conn.target, conn.targetInput)
                          = graph.connections[LastInto(c)]

\* a split fed on 'data' by two loaders, compiled: it reads the second one
C22_Witness ==
    /\ GeneratePythonCodeRan
    /\ outcome.status = "ok"
    /\ DoublyFed
    /\ \E i \in 1..Len(lastSorted) :
           /\ lastSorted[i].kind = "dataSplit"
           /\ Cardinality(FeedsOf(lastSorted[i].id, "data")) = 2
           /\ outcome.text.blocks[i].src =
                  MapGet(mem.varNameMap,
                         graph.connections[LastInto(1)].source)

(***************************************************************************)
(* C23.  In the fragments emitted for an accepted graph, each evaluate     *)
(* fragment evaluates the prediction of the predict node wired to its      *)
(* 'prediction' input: the last fragment before it that assigns y_pred is  *)
(* the fragment of that node, also with several predict/evaluate branches. *)
(***************************************************************************)
\* the position of the last fragment before position j that assigns v, or 0
LastAssigner(v, j) ==
    LET before == {i \in 1..(j - 1) : v \in Assigns(outcome.text.blocks[i])}
    IN  IF before = {} THEN 0 ELSE CHOOSE i \in before : \A k \in before : k <= i

\* the fragment at position j reads v as the node wired to the socket left it
ReadsFromSource(j, v, socket) ==
    /\ LastAssigner(v, j) > 0
    /\ HasConnection(mem.connectionIndex, lastSorted[j].id, socket)
    /\ lastSorted[LastAssigner(v, j)].id =
           GetConnection(mem.connectionIndex, lastSorted[j].id, socket).source

C23_EvaluateReadsItsPrediction ==
    (GeneratePythonCodeRan /\ outcome.status = "ok" /\ WellFormedGraph) =>
        \A j \in 1..Len(lastSorted) :
            (lastSorted[j].kind = "evaluate" /\ "y_pred" \in Reads(outcome.text.blocks[j])) =>
                ReadsFromSource(j, "y_pred", "prediction")

(***************************************************************************)
(* C24.  In the fragments emitted for an accepted graph, each predict      *)
(* fragment calls the model trained by the node wired to its 'model'       *)
(* input: the last fragment before it that assigns the symbol it calls     *)
(* predict on is the fragment of that node.                                *)
(***************************************************************************)
C24_PredictCallsItsModel ==
    (GeneratePythonCodeRan /\ outcome.status = "ok" /\ WellFormedGraph) =>
        \A j \in 1..Len(lastSorted) :
            outcome.text.blocks[j].frag = "predict" =>
                ReadsFromSource(j, outcome.text.blocks[j].src, "model")

(***************************************************************************)
(* C25.  A scaler or featureSelection node transforms the data of its      *)
(* downstream nodes only: a model-training or predict fragment whose node  *)
(* is not reachable from the scaler through the connections reads no       *)
(* training/test variable that the scaler's fragment was the last to       *)
(* overwrite.                                                              *)
(***************************************************************************)
Downstream(id) == UNION {ReachedIn({id}, k) : k \in 1..Len(graph.nodes)}

C25_ScalerTouchesDownstreamOnly ==
    (GeneratePythonCodeRan /\ outcome.status = "ok" /\ WellFormedGraph) =>
        \A i, j \in 1..Len(lastSorted) :
            (/\ lastSorted[i].kind \in {"scaler", "featureSelection"}
             /\ lastSorted[j].kind \in ModelKinds \cup {"predict"}
             /\ lastSorted[j].id \notin Downstream(lastSorted[i].id)) =>
                \A v \in Reads(outcome.text.blocks[j]) \cap {"X_train", "X_test"} :
                    LastAssigner(v, j) # i

(***************************************************************************)
(* C26.  The import preamble is sufficient and duplicate-free: every       *)
(* library name an emitted fragment constructs or calls is imported by a   *)
(* preamble line or inside the fragment itself, and no import line occurs  *)
(* twice however many nodes of a kind the graph has.                       *)
(***************************************************************************)
PreambleNames(text) == UNION {ImportedNames(text.imports[i]) : i \in 1..Len(text.imports)}

NoLineTwice(text) ==
    \A i, j \in 1..Len(text.imports) : text.imports[i] = text.imports[j] => i = j

C26_ImportsSufficient ==
    (GeneratePythonCodeRan /\ outcome.status = "ok" /\ WellFormedGraph) =>
        /\ NoLineTwice(outcome.text)
        /\ \A j \in 1..Len(outcome.text.blocks) :
               Uses(outcome.text.blocks[j]) \subseteq
                   PreambleNames(outcome.text) \cup LocalImports(outcome.text.blocks[j])

(***************************************************************************)
(* C27.  topologicalSort terminates on every finite node list and          *)
(* connection list, cycles, self-loops, duplicate connections and          *)
(* connections between ids that are not nodes included: each id is pushed  *)
(* on the queue at most once, and the run ends with the queue empty.       *)
(***************************************************************************)
SortIds ==
    {graph.nodes[i].id : i \in 1..Len(graph.nodes)}
        \cup {graph.connections[c].target : c \in 1..Len(graph.connections)}

C27_SortTerminates ==
    ran = <<"topologicalSort">> =>
        /\ mem.queue = << >>
        /\ \A i, j \in 1..Len(mem.pushed) : mem.pushed[i] = mem.pushed[j] => i = j
        /\ Range(mem.pushed) \subseteq SortIds
        /\ \A i \in 1..Len(lastSorted) : lastSorted[i].id \in Range(mem.pushed)
        /\ Len(lastSorted) <= Len(mem.pushed)

\* a self-loop and a connection given twice, and two ids went through the queue
C27_Witness ==
    /\ ran = <<"topologicalSort">>
    /\ Len(mem.pushed) = 2
    /\ \E c \in 1..Len(graph.connections) :
           /\ graph.connections[c].source = graph.connections[c].target
           /\ graph.connections[c].source \in MLIds
    /\ \E c, d \in 1..Len(graph.connections) :
           /\ c < d
           /\ graph.connections[c] = graph.connections[d]
           /\ graph.connections[c].source # graph.connections[c].target
           /\ {graph.connections[c].source, graph.connections[c].target} \subseteq MLIds

(***************************************************************************)
(* C28.  validatePipeline reports the cycle violation exactly when the     *)
(* connections contain a directed cycle, a self-loop included: none for an *)
(* acyclic graph, also when a node is reached along two paths, and every   *)
(* cycle whatever the order of nodes and connections.                      *)
(***************************************************************************)
\* the ids reached from the ids in S along k connections
RECURSIVE ReachedAlong(_, _)
ReachedAlong(S, k) ==
    IF k = 0 THEN S
    ELSE ReachedAlong({graph.connections[c].target :
                          c \in {d \in 1..Len(graph.connections) :
                                    graph.connections[d].source \in S}}, k - 1)

ConnectionCycle ==
    \E c \in 1..Len(graph.connections) : \E k \in 1..Len(graph.connections) :
        graph.connections[c].source \in ReachedAlong({graph.connections[c].source}, k)

C28_CycleReportedExactly ==
    (ran = <<"validatePipeline">> /\ Len(graph.nodes) > 0) =>
        ("cycle" \in Range(outcome.editorErrors) <=> ConnectionCycle)

\* a node reached along two paths, and no cycle reported
C28_Witness ==
    /\ ran = <<"validatePipeline">>
    /\ "cycle" \notin Range(outcome.editorErrors)
    /\ \E a, b, c \in MLIds :
           /\ Cardinality({a, b, c}) = 3
           /\ Range(graph.connections) =
                  {Wire(a, "train", b, "train"), Wire(b, "train", c, "train"),
                   Wire(a, "train", c, "train")}

(***************************************************************************)
(* C29.  Validation checks its rules in the priority order node/dataLoader *)
(* presence (1), duplicate ids (2), disconnected nodes (3), required       *)
(* sockets (4), cycles (5), and stops at the first category that fails:    *)
(* the report of a failed validation holds violations of the first         *)
(* violated category only.                                                 *)
(***************************************************************************)
RuleCategory(rule) ==
    CASE rule \in {"noNodes", "noMLNodes", "needsDataLoader"} -> 1
      [] rule = "duplicateIds" -> 2
      [] rule = "orphanedNodes" -> 3
      [] rule \in {"splitNeedsData", "modelNeedsTrain", "predictNeedsModelAndTest",
                   "evaluateNeedsPredictionAndTest"} -> 4
      [] rule = "cycle" -> 5
      [] OTHER -> 0

ViolatedCategories ==
    (IF Len(graph.nodes) = 0
        \/ \A i \in 1..Len(graph.nodes) : graph.nodes[i].kind # "dataLoader"
     THEN {1} ELSE {})
    \cup (IF Cardinality({graph.nodes[i].id : i \in 1..Len(graph.nodes)}) < Len(graph.nodes)
          THEN {2} ELSE {})
    \cup (IF \E i \in 1..Len(graph.nodes) : IsOrphan(graph.nodes[i]) THEN {3} ELSE {})
    \cup (IF \E i \in 1..Len(graph.nodes) :
                \E socket \in RequiredSockets(graph.nodes[i].kind) :
                    ~HasIncomingOn(graph.nodes[i], socket)
          THEN {4} ELSE {})
    \cup (IF HasDirectedCycle THEN {5} ELSE {})

ReportedCategories ==
    {RuleCategory(outcome.editorErrors[i]) : i \in 1..Len(outcome.editorErrors)}
        \cup (IF outcome.error = NoError THEN {} ELSE {RuleCategory(outcome.error.rule)})

C29_FirstCategoryOnly ==
    (/\ outcome.status = "error"
     /\ ~HasUnknownKind
     /\ \A c \in 1..Len(graph.connections) :
            graph.connections[c].source \in MLIds /\ graph.connections[c].target \in MLIds) =>
        /\ ViolatedCategories # {}
        /\ ReportedCategories =
               {CHOOSE k \in ViolatedCategories : \A l \in ViolatedCategories : k <= l}

(***************************************************************************)
(* C30.  The notebook has one markdown cell first and after it only code   *)
(* cells, one per blank-line-separated paragraph of the generated text, in *)
(* the same order; the source of a code cell is the lines of its           *)
(* paragraph, each ended by a newline, so that the paragraphs of the cells *)
(* joined with blank lines are the generated text again.                   *)
(***************************************************************************)
EndsWithNewline(line) == Len(line) > 0 /\ SubSeq(line, Len(line), Len(line)) = "\n"

\* the lines of a cell, without the newline that ends each
ParagraphOf(cell) ==
    [i \in 1..Len(cell.source) |-> SubSeq(cell.source[i], 1, Len(cell.source[i]) - 1)]

\* the paragraphs of the cells from the i-th on, joined with blank lines
RECURSIVE JoinedFrom(_, _)
JoinedFrom(cells, i) ==
    IF i > Len(cells) THEN << >>
    ELSE IF i = Len(cells) THEN ParagraphOf(cells[i])
    ELSE ParagraphOf(cells[i]) \o <<"">> \o JoinedFrom(cells, i + 1)

\* no blank line separates two parts of the paragraph
IsParagraph(lines) == \A k \in 1..(Len(lines) - 1) : k > 1 => lines[k] # ""

C30_NotebookCellsAreParagraphs ==
    (GeneratePythonCodeRan /\ outcome.artifact = "notebook") =>
        /\ Len(outcome.cells) >= 2
        /\ outcome.cells[1].cell_type = "markdown"
        /\ \A i \in 2..Len(outcome.cells) :
               /\ outcome.cells[i].cell_type = "code"
               /\ Len(outcome.cells[i].source) > 0
               /\ \A l \in 1..Len(outcome.cells[i].source) :
                      EndsWithNewline(outcome.cells[i].source[l])
               /\ IsParagraph(ParagraphOf(outcome.cells[i]))
        /\ JoinedFrom(outcome.cells, 2) = PythonCodeLines(outcome.text)

\* the notebook of a loader and a split: the loader's fragment holds blank
\* lines and is cut into several cells
C30_Witness ==
    /\ GeneratePythonCodeRan
    /\ outcome.artifact = "notebook"
    /\ FragmentOrder(outcome.text) = <<"loadEmbedded", "split">>
    /\ Len(outcome.cells) = 9
    /\ Len(outcome.cells[9].source) = 4
    /\ Len(outcome.cells[8].source) = LineCount("split")

====
